---- MODULE Spec2Model ----
(***************************************************************************)
(* Signaling gateway of broadcast-box (src/main.go, src/internal/webrtc/   *)
(* pgsql.go): the WHIP/WHEP handlers, the layer handlers, the status       *)
(* handlers and the CORS wrapper, run against a credential store and the   *)
(* media engine's session registry.                                        *)
(*                                                                         *)
(* Text is a sequence of atoms.  Text the code inspects (the Authorization *)
(* header, stream keys, request URIs, session ids) is held one character   *)
(* per atom; literal text the code only emits is held as one atom.         *)
(***************************************************************************)
EXTENDS Integers, Sequences, FiniteSets, TLC

\* ------------------------------------------------------------------ bounds

\* Sessions the media engine mints before it refuses further negotiations.
MaxSessions == 1

\* Connections dbPool hands out before Acquire blocks (pool_max_conns).
PoolSize == 2

\* Longest stream key given to validateStreamKey on its own.
MaxKeyLen == 2

\* Longest text after the header's prefix given to extractBearerToken on its
\* own.
MaxRestLen == 3

\* ------------------------------------------------------- program constants

StatusOK == 200
StatusCreated == 201
StatusBadRequest == 400
StatusForbidden == 403
StatusNotFound == 404

\* ----------------------------------------------------------- strings (Go)

\* A string literal, one character per atom.
bearerPrefix == <<"B", "e", "a", "r", "e", "r", " ">>

\* strings.HasPrefix
HasPrefix(s, p) == Len(s) >= Len(p) /\ SubSeq(s, 1, Len(p)) = p

\* strings.TrimPrefix
TrimPrefix(s, p) == IF HasPrefix(s, p) THEN SubSeq(s, Len(p) + 1, Len(s)) ELSE s

\* strings.HasSuffix
HasSuffix(s, p) == Len(s) >= Len(p) /\ SubSeq(s, Len(s) - Len(p) + 1, Len(s)) = p

\* strings.TrimSuffix
TrimSuffix(s, p) == IF HasSuffix(s, p) THEN SubSeq(s, 1, Len(s) - Len(p)) ELSE s

\* strings.Split(s, sep) for a one-character separator: always at least one
\* component, the empty string splits into one empty component.
RECURSIVE Split(_, _)
Split(s, sep) ==
  IF \A i \in 1..Len(s) : s[i] # sep
    THEN <<s>>
    ELSE LET i == CHOOSE j \in 1..Len(s) :
                    s[j] = sep /\ \A k \in 1..(j - 1) : s[k] # sep
         IN  <<SubSeq(s, 1, i - 1)>> \o Split(SubSeq(s, i + 1, Len(s)), sep)

\* The character class of the stream-key pattern [a-zA-Z0-9_\-\.~].
KeyClass ==
  { "a", "b", "c", "d", "e", "f", "g", "h", "i", "j", "k", "l", "m",
    "n", "o", "p", "q", "r", "s", "t", "u", "v", "w", "x", "y", "z",
    "A", "B", "C", "D", "E", "F", "G", "H", "I", "J", "K", "L", "M",
    "N", "O", "P", "Q", "R", "S", "T", "U", "V", "W", "X", "Y", "Z",
    "0", "1", "2", "3", "4", "5", "6", "7", "8", "9",
    "_", "-", ".", "~" }

\* The pattern with * in the place of +.
validateStreamKey_star(streamKey) ==
  \A i \in 1..Len(streamKey) : streamKey[i] \in KeyClass

\* regexp ^[a-zA-Z0-9_\-\.~]+$ : one or more characters, all of the class.
validateStreamKey(streamKey) ==
  /\ Len(streamKey) > 0
  /\ \A i \in 1..Len(streamKey) : streamKey[i] \in KeyClass

\* A nil slice has no component; Split never returns one.
Nil == <<>>

\* strings.SplitN(.., 2) in the place of strings.Split.
extractBearerToken_splitOnce(authHeader) ==
  LET s == TrimPrefix(authHeader, bearerPrefix)
      i == CHOOSE j \in 1..(Len(s) + 1) :
             /\ j <= Len(s) => s[j] = ";"
             /\ \A k \in 1..(j - 1) : s[k] # ";"
  IN  IF ~HasPrefix(authHeader, bearerPrefix)
        THEN [token |-> Nil, ok |-> FALSE]
      ELSE IF i > Len(s)
        THEN [token |-> <<s>>, ok |-> TRUE]
        ELSE [token |-> <<SubSeq(s, 1, i - 1), SubSeq(s, i + 1, Len(s))>>,
              ok |-> TRUE]

extractBearerToken(authHeader) ==
  IF HasPrefix(authHeader, bearerPrefix)
    THEN [token |-> Split(TrimPrefix(authHeader, bearerPrefix), ";"), ok |-> TRUE]
    ELSE [token |-> Nil, ok |-> FALSE]

\* ----------------------------------------------------- http.ResponseWriter

\* status 0: WriteHeader not called yet.  header is the live header map as a
\* sequence of <<name, value>>; sent is the header map as it stood when the
\* status line was written, which is what the client receives.
NewResponse == [status |-> 0, header |-> <<>>, sent |-> <<>>, body |-> <<>>]

\* Header().Add
HeaderAdd(w, k, v) == [w EXCEPT !.header = Append(@, <<k, v>>)]

\* Header().Set
HeaderSet(w, k, v) ==
  [w EXCEPT !.header = Append(SelectSeq(@, LAMBDA e : e[1] # k), <<k, v>>)]

\* WriteHeader: the first call fixes status and headers, later calls are
\* superfluous and ignored.
WriteHeader(w, code) ==
  IF w.status # 0 THEN w ELSE [w EXCEPT !.status = code, !.sent = w.header]

\* Write (fmt.Fprint): an implicit WriteHeader(200) when none was made.
Write(w, data) ==
  LET w1 == WriteHeader(w, StatusOK) IN [w1 EXCEPT !.body = @ \o data]

\* http.Error
httpError(w, err, code) ==
  LET w1 == HeaderSet(w, "Content-Type", <<"text/plain; charset=utf-8">>)
      w2 == HeaderSet(w1, "X-Content-Type-Options", <<"nosniff">>)
      w3 == WriteHeader(w2, code)
  IN  Write(w3, err \o <<"\n">>)

\* The values of header k, in order.
HeaderValues(hdr, k) ==
  LET es == SelectSeq(hdr, LAMBDA e : e[1] = k)
  IN  [i \in 1..Len(es) |-> es[i][2]]

\* --------------------------------------------------------- credential store

\* Stream keys and secrets the model draws on.
k1 == <<"k", "1">>
k2 == <<"k", "2">>
k9 == <<"k", "9">>
kBad == <<"b", "!">>
s1 == <<"p", "w">>
s2 == <<"q">>
s3 == <<"n">>

\* The rows the streamers table can hold: name, stream_key (a set), auth_token.
\* ann's row exists with either of two secrets, the second of which no
\* request presents; one of bob's keys is not of
\* the stream-key character class (nothing the gateway does constrains what
\* the table holds).
Credentials ==
  { [name |-> <<"ann">>, keys |-> {k1}, secret |-> s1],
    [name |-> <<"ann">>, keys |-> {k1}, secret |-> s3],
    [name |-> <<"bob">>, keys |-> {k2, kBad}, secret |-> s2] }

\* The contents the table can have: no two rows share a stream key.
Stores ==
  { S \in SUBSET Credentials :
      \A c, d \in S : c # d => c.keys \cap d.keys = {} }

\* *Streamer; isNil marks the nil pointer.
NilStreamer ==
  [isNil |-> TRUE, Name |-> <<>>, AuthToken |-> <<>>, StreamKey |-> <<>>]

\* The WHERE clause with the auth_token test dropped.
streamerRows_keyOnly(rows, token) == { c \in rows : token[1] \in c.keys }

\* The WHERE clause with the stream_key test dropped.
streamerRows_secretOnly(rows, token) == { c \in rows : c.secret = token[2] }

\* WHERE @streamKey = ANY(stream_key) AND auth_token = @authToken
streamerRows(rows, token) ==
  { c \in rows : token[1] \in c.keys /\ c.secret = token[2] }

\* NewStreamer.  Building the named arguments reads token[0] and token[1]
\* before the query is issued: a token of fewer than two components panics
\* there.  Any Scan error (no row, or a failed query or pool acquisition)
\* gives nil.
NewStreamer(rows, dbOK, token) ==
  IF Len(token) < 2
    THEN [panic |-> TRUE, res |-> "panic", streamer |-> NilStreamer]
    ELSE LET found == streamerRows(rows, token) IN
         IF ~dbOK
           THEN [panic |-> FALSE, res |-> "error", streamer |-> NilStreamer]
         ELSE IF found = {}
           THEN [panic |-> FALSE, res |-> "norows", streamer |-> NilStreamer]
         ELSE LET c == CHOOSE r \in found : TRUE
              IN  [panic |-> FALSE, res |-> "row",
                   streamer |-> [isNil |-> FALSE, Name |-> c.name,
                                 AuthToken |-> c.secret, StreamKey |-> token[1]]]

\* SELECT DISTINCT(unnest(stream_key)) FROM streamers
distinctStreamKeys(rows) == UNION { c.keys : c \in rows }

\* GetStreamKeys.  The error of pool.Query is dropped: a failed query yields
\* rows that iterate nothing, so the result is the nil list and a nil error.
\* order is the order in which the store returns the keys.
GetStreamKeys(rows, dbOK, order) ==
  [keys |-> IF dbOK
              THEN SelectSeq(order, LAMBDA k : k \in distinctStreamKeys(rows))
              ELSE Nil,
   err |-> FALSE]

\* slices.Contains
Contains(list, v) == \E i \in 1..Len(list) : list[i] = v

\* ------------------------------------------------------------ media engine

\* Session ids the engine assigns, in order.
Digits == <<"1", "2", "3", "4", "5", "6", "7", "8", "9">>
SessionId(n) == <<"s", Digits[n]>>

\* The engine's registry: sessions maps a live session id to its direction,
\* stream key and selected layer; minted counts the ids assigned so far.
NewEngine == [sessions |-> <<>>, minted |-> 0]

\* The ids of the live egress sessions: the ids a layer query or switch knows.
WhepIds(eng) ==
  { eng.sessions[i].id : i \in { j \in 1..Len(eng.sessions) :
                                   eng.sessions[j].dir = "egress" } }

Mint(eng, dir, key) ==
  [sessions |-> Append(eng.sessions,
                       [id |-> SessionId(eng.minted + 1), dir |-> dir,
                        key |-> key, layer |-> <<>>]),
   minted |-> eng.minted + 1]

engineAnswer == <<"v=0 answer">>
engineError == <<"engine error">>
readError == <<"unexpected EOF">>

\* webrtc.WHIP: negotiate an ingest session for the streamer's key.
engineWHIP(eng, offer, streamer, ok) ==
  IF ok
    THEN [eng |-> Mint(eng, "ingest", streamer.StreamKey), err |-> FALSE,
          answer |-> engineAnswer]
    ELSE [eng |-> eng, err |-> TRUE, answer |-> <<>>]

\* webrtc.WHEP: negotiate an egress session and mint its id.
engineWHEP(eng, offer, streamKey, ok) ==
  IF ok
    THEN [eng |-> Mint(eng, "egress", streamKey), err |-> FALSE,
          answer |-> engineAnswer, id |-> SessionId(eng.minted + 1)]
    ELSE [eng |-> eng, err |-> TRUE, answer |-> <<>>, id |-> <<>>]

\* webrtc.WHEPLayers: the layer list of a known session, as JSON.
engineWHEPLayers(eng, id, layers) ==
  IF id \in WhepIds(eng)
    THEN [err |-> FALSE, layers |-> layers]
    ELSE [err |-> TRUE, layers |-> <<>>]

\* webrtc.WHEPChangeLayer: select a layer of a known session.
engineWHEPChangeLayer(eng, id, encodingId) ==
  IF id \in WhepIds(eng)
    THEN [eng |-> [eng EXCEPT !.sessions =
                     [i \in 1..Len(@) |->
                        IF @[i].id = id THEN [@[i] EXCEPT !.layer = encodingId]
                        ELSE @[i]]],
          err |-> FALSE]
    ELSE [eng |-> eng, err |-> TRUE]

\* webrtc.GetStreamStatus: opaque to the gateway.
engineGetStreamStatus(streamKey) == <<"{\"streamKey\":\"">> \o streamKey \o <<"\"}">>

\* ------------------------------------------------------------- JSON bodies

\* A request body as encoding/json sees it.  kind: "object", "null", "array",
\* "syntax" (not JSON), "empty" (no bytes).  A field of an object is absent,
\* a JSON string, or a JSON number.
NoField == [present |-> FALSE, isString |-> FALSE, v |-> <<>>]
StringField(v) == [present |-> TRUE, isString |-> TRUE, v |-> v]
NumberField == [present |-> TRUE, isString |-> FALSE, v |-> <<>>]
JSONObject(mediaId, encodingId) ==
  [kind |-> "object", mediaId |-> mediaId, encodingId |-> encodingId]
JSONOther(kind) == [kind |-> kind, mediaId |-> NoField, encodingId |-> NoField]

\* The decoder with a required-field check (an absent field is an error).
jsonDecode_required(doc) ==
  IF doc.kind = "object" /\ doc.mediaId.present /\ doc.mediaId.isString
     /\ doc.encodingId.present /\ doc.encodingId.isString
    THEN [err |-> FALSE, MediaId |-> doc.mediaId.v, EncodingId |-> doc.encodingId.v]
    ELSE [err |-> TRUE, MediaId |-> <<>>, EncodingId |-> <<>>]

\* json.NewDecoder(body).Decode(&r) into whepLayerRequestJSON: an absent
\* field leaves the zero value, null leaves the struct as it is; no bytes,
\* bytes that are not JSON, a non-object value and a field of the wrong type
\* are errors.
jsonDecode(doc) ==
  IF doc.kind = "null"
    THEN [err |-> FALSE, MediaId |-> <<>>, EncodingId |-> <<>>]
  ELSE IF doc.kind # "object"
    THEN [err |-> TRUE, MediaId |-> <<>>, EncodingId |-> <<>>]
  ELSE IF \/ doc.mediaId.present /\ ~doc.mediaId.isString
          \/ doc.encodingId.present /\ ~doc.encodingId.isString
    THEN [err |-> TRUE, MediaId |-> <<>>, EncodingId |-> <<>>]
  ELSE [err |-> FALSE,
        MediaId |-> IF doc.mediaId.present THEN doc.mediaId.v ELSE <<>>,
        EncodingId |-> IF doc.encodingId.present THEN doc.encodingId.v ELSE <<>>]

RECURSIVE jsonStrings(_)
jsonStrings(list) ==
  IF list = <<>> THEN <<>>
  ELSE <<"\"">> \o Head(list) \o <<"\"">>
       \o (IF Len(list) > 1 THEN <<",">> ELSE <<>>) \o jsonStrings(Tail(list))

\* json.NewEncoder(res).Encode of a []string: the nil list encodes as null.
jsonEncodeStrings(list) ==
  IF list = Nil THEN <<"null", "\n">>
  ELSE <<"[">> \o jsonStrings(list) \o <<"]", "\n">>

\* ------------------------------------------------------ a handler execution

\* What one request's handling has done so far: the response writer, the
\* calls and writes in order, whether the goroutine panicked, and the
\* engine's registry as the calls left it.
Event(op, arg, code, res) == [op |-> op, arg |-> arg, code |-> code, res |-> res]

NewExec(eng) == [w |-> NewResponse, ev |-> <<>>, panicked |-> FALSE, eng |-> eng]

Did(x, e) == [x EXCEPT !.ev = Append(@, e)]

logHTTPError(x, err, code) ==
  [x EXCEPT !.w = httpError(@, err, code),
            !.ev = Append(@, Event("logHTTPError", <<err>>, code, ""))]

\* ---------------------------------------------------------------- handlers

\* A handler's draws for one request: whether the store answers (dbOK),
\* whether the body can be read (bodyOK), whether the engine accepts the
\* negotiation (engineOK), the layer list the engine reports (layers) and
\* the order in which the store returns stream keys (order).

\* The method filter dropped: a DELETE is handled like a POST.
whipIsDelete_never(method) == FALSE

\* r.Method == "DELETE"
whipIsDelete(method) == method = "DELETE"

whipTokenInvalid(t) ==
  ~t.ok \/ t.token = Nil \/ ~validateStreamKey(t.token[1])

\* whipHandler from the credential lookup on (main.go lines 77 to 98).
whipAuthorized(x, r, rows, nd, token) ==
  LET s == NewStreamer(rows, nd.dbOK, token) IN
  IF s.panic
    THEN [x EXCEPT !.panicked = TRUE]
  ELSE
    LET x1 == Did(x, Event("NewStreamer", token, 0, s.res)) IN
    IF s.streamer.isNil
      THEN logHTTPError(x1, <<"Not an authorized streamer">>, StatusForbidden)
    ELSE IF ~nd.bodyOK
      THEN logHTTPError(Did(x1, Event("ReadAll", <<>>, 0, "error")),
                        readError, StatusBadRequest)
    ELSE
      LET x2 == Did(x1, Event("ReadAll", <<>>, 0, "ok"))
          a  == engineWHIP(x2.eng, r.body, s.streamer, nd.engineOK)
          x3 == Did([x2 EXCEPT !.eng = a.eng],
                    Event("WHIP", <<r.body, s.streamer.StreamKey>>, 0,
                          IF a.err THEN "error" ELSE "ok"))
      IN
      IF a.err
        THEN logHTTPError(x3, engineError, StatusBadRequest)
      ELSE
        LET w1 == HeaderAdd(x3.w, "Location", <<"/api/whip">>)
            w2 == HeaderAdd(w1, "Content-Type", <<"application/sdp">>)
            w3 == WriteHeader(w2, StatusCreated)
            w4 == Write(w3, a.answer)
        IN  Did(Did([x3 EXCEPT !.w = w4],
                    Event("WriteHeader", <<>>, StatusCreated, "")),
                Event("Fprint", <<a.answer>>, 0, ""))

\* whipHandler.  The token check writes its 400 and does not return: the
\* handler goes on to the credential lookup with the token as it is.
whipHandler(x, r, rows, nd) ==
  LET x1 == Did(x, Event("whipHandler", <<>>, 0, "")) IN
  IF whipIsDelete(r.method)
    THEN x1
  ELSE IF r.auth = <<>>
    THEN logHTTPError(x1, <<"Authorization was not set">>, StatusBadRequest)
  ELSE
    LET t  == extractBearerToken(r.auth)
        x2 == IF whipTokenInvalid(t)
                THEN logHTTPError(x1, <<"Not a valid token">>, StatusBadRequest)
                ELSE x1
    IN  whipAuthorized(x2, r, rows, nd, t.token)

\* ------------------------------------- the WHIP path of unnamed/part_000

\* webrtc.LookupStreamer: the row whose key set holds token[0] and whose
\* secret is token[1]; no such row, or a token without both, is not ok.  It
\* queries on the connection it is given and does nothing else to it.
LookupStreamer(rows, token) ==
  IF Len(token) < 2 \/ streamerRows(rows, token) = {}
    THEN [streamer |-> NilStreamer, ok |-> FALSE]
    ELSE LET c == CHOOSE r \in streamerRows(rows, token) : TRUE
         IN  [streamer |-> [isNil |-> FALSE, Name |-> c.name,
                            AuthToken |-> c.secret, StreamKey |-> token[1]],
              ok |-> TRUE]

\* validateStreamer.  dbPool.Acquire either fails, and log.Fatal ends the
\* process, or hands out a connection; the connection is passed to the
\* lookup and is not released afterwards.
validateStreamer(x, rows, nd, token) ==
  IF ~nd.dbOK
    THEN [x |-> Did(Did(x, Event("Acquire", <<>>, 0, "error")),
                    Event("log.Fatal", <<>>, 0, "")),
          streamer |-> NilStreamer, ok |-> FALSE]
    ELSE LET l == LookupStreamer(rows, token)
         IN  [x |-> Did(Did(x, Event("Acquire", <<>>, 0, "ok")),
                        Event("LookupStreamer", token, 0,
                              IF l.ok THEN "row" ELSE "norows")),
              streamer |-> l.streamer, ok |-> l.ok]

\* The process was ended by log.Fatal.
Exited(x) == \E i \in 1..Len(x.ev) : x.ev[i].op = "log.Fatal"

\* Connections acquired and not released in the execution.
Held(x) ==
  Len(SelectSeq(x.ev, LAMBDA e : e.op = "Acquire" /\ e.res = "ok"))
  - Len(SelectSeq(x.ev, LAMBDA e : e.op = "Release"))

\* whipHandler of unnamed/part_000: as in main.go, the token check writes
\* its 400 and does not return.
whipHandlerPart000(x, r, rows, nd) ==
  LET x1 == Did(x, Event("whipHandler", <<>>, 0, "")) IN
  IF whipIsDelete(r.method)
    THEN x1
  ELSE IF r.auth = <<>>
    THEN logHTTPError(x1, <<"Authorization was not set">>, StatusBadRequest)
  ELSE
    LET t  == extractBearerToken(r.auth)
        x2 == IF whipTokenInvalid(t)
                THEN logHTTPError(x1, <<"Not a valid token">>, StatusBadRequest)
                ELSE x1
        v  == validateStreamer(x2, rows, nd, t.token)
    IN
    IF Exited(v.x)
      THEN v.x
    ELSE IF ~v.ok \/ v.streamer.isNil
      THEN logHTTPError(v.x, <<"Not an authorized streamer">>, StatusForbidden)
    ELSE IF ~nd.bodyOK
      THEN logHTTPError(Did(v.x, Event("ReadAll", <<>>, 0, "error")),
                        readError, StatusBadRequest)
    ELSE
      LET x3 == Did(v.x, Event("ReadAll", <<>>, 0, "ok"))
          a  == engineWHIP(x3.eng, r.body, v.streamer, nd.engineOK)
          x4 == Did([x3 EXCEPT !.eng = a.eng],
                    Event("WHIP", <<r.body, v.streamer.StreamKey>>, 0,
                          IF a.err THEN "error" ELSE "ok"))
      IN
      IF a.err
        THEN logHTTPError(x4, engineError, StatusBadRequest)
      ELSE
        LET w1 == HeaderAdd(x4.w, "Location", <<"/api/whip">>)
            w2 == HeaderAdd(w1, "Content-Type", <<"application/sdp">>)
            w3 == WriteHeader(w2, StatusCreated)
            w4 == Write(w3, a.answer)
        IN  Did(Did([x4 EXCEPT !.w = w4],
                    Event("WriteHeader", <<>>, StatusCreated, "")),
                Event("Fprint", <<a.answer>>, 0, ""))

relSSE == <<"urn:ietf:params:whep:ext:core:server-sent-events">>
relLayer == <<"urn:ietf:params:whep:ext:core:layer">>

\* The two Link header values of a WHEP answer.
whepLinkSSE(apiPath, whepSessionId) ==
  <<"<">> \o apiPath \o <<"s", "s", "e", "/">> \o whepSessionId
  \o <<">", "; rel=\"">> \o relSSE \o <<"\"", "; events=\"layers\"">>

\* The layer link with the session id left out.
whepLinkLayer_noId(apiPath, whepSessionId) ==
  <<"<">> \o apiPath \o <<"l", "a", "y", "e", "r", "/">>
  \o <<">", "; rel=\"">> \o relLayer \o <<"\"">>

whepLinkLayer(apiPath, whepSessionId) ==
  <<"<">> \o apiPath \o <<"l", "a", "y", "e", "r", "/">> \o whepSessionId
  \o <<">", "; rel=\"">> \o relLayer \o <<"\"">>

\* The token check with a secret component demanded as well.
whepTokenInvalid_needsSecret(t) ==
  ~t.ok \/ ~validateStreamKey(t.token[1]) \/ Len(t.token) < 2

\* !ok || !validateStreamKey(token[0])
whepTokenInvalid(t) == ~t.ok \/ ~validateStreamKey(t.token[1])

whepHandler(x, r, rows, nd) ==
  LET x1 == Did(x, Event("whepHandler", <<>>, 0, "")) IN
  IF r.auth = <<>>
    THEN logHTTPError(x1, <<"Authorization was not set">>, StatusBadRequest)
  ELSE
    LET t == extractBearerToken(r.auth) IN
    IF whepTokenInvalid(t)
      THEN logHTTPError(x1, <<"Invalid stream key format">>, StatusBadRequest)
    ELSE IF ~nd.bodyOK
      THEN logHTTPError(Did(x1, Event("ReadAll", <<>>, 0, "error")),
                        readError, StatusBadRequest)
    ELSE
      LET x2 == Did(x1, Event("ReadAll", <<>>, 0, "ok"))
          a  == engineWHEP(x2.eng, r.body, t.token[1], nd.engineOK)
          x3 == Did([x2 EXCEPT !.eng = a.eng],
                    Event("WHEP", <<r.body, t.token[1], a.id>>, 0,
                          IF a.err THEN "error" ELSE "ok"))
      IN
      IF a.err
        THEN logHTTPError(x3, engineError, StatusBadRequest)
      ELSE
        LET apiPath == r.host \o TrimSuffix(r.uri, <<"w", "h", "e", "p">>)
            w1 == HeaderAdd(x3.w, "Link", whepLinkSSE(apiPath, a.id))
            w2 == HeaderAdd(w1, "Link", whepLinkLayer(apiPath, a.id))
            w3 == HeaderAdd(w2, "Location", <<"/api/whep">>)
            w4 == HeaderAdd(w3, "Content-Type", <<"application/sdp">>)
            w5 == WriteHeader(w4, StatusCreated)
            w6 == Write(w5, a.answer)
        IN  Did(Did([x3 EXCEPT !.w = w6],
                    Event("WriteHeader", <<>>, StatusCreated, "")),
                Event("Fprint", <<a.answer>>, 0, ""))

\* vals := strings.Split(req.URL.RequestURI(), "/"); vals[len(vals)-1]
\* The session id taken from the engine's counter instead of the path.
lastSegment_firstMinted(uri) == SessionId(1)

\* strings.Split(r.URL.RequestURI(), "/") and its last element
lastSegment(uri) == LET vals == Split(uri, "/") IN vals[Len(vals)]

\* The frame with the terminator left out.
sseFrame_noTerminator(layers) ==
  << <<"event: layers", "\n">>, <<"data: ">> \o layers \o <<"\n">>, <<>> >>

\* The frame of the layers event, in the three writes of the handler.
sseFrame(layers) ==
  << <<"event: layers", "\n">>, <<"data: ">> \o layers \o <<"\n">>, <<"\n", "\n">> >>

whepServerSentEventsHandler(x, r, rows, nd) ==
  LET x1 == Did(x, Event("whepServerSentEventsHandler", <<>>, 0, ""))
      w1 == HeaderSet(x1.w, "Content-Type", <<"text/event-stream">>)
      w2 == HeaderSet(w1, "Cache-Control", <<"no-cache">>)
      w3 == HeaderSet(w2, "Connection", <<"keep-alive">>)
      whepSessionId == lastSegment(r.uri)
      a  == engineWHEPLayers(x1.eng, whepSessionId, nd.layers)
      x2 == Did([x1 EXCEPT !.w = w3],
                Event("WHEPLayers", <<whepSessionId>>, 0,
                      IF a.err THEN "error" ELSE "ok"))
  IN
  IF a.err
    THEN logHTTPError(x2, engineError, StatusBadRequest)
  ELSE
    LET f  == sseFrame(a.layers)
        w4 == Write(Write(Write(x2.w, f[1]), f[2]), f[3])
    IN  Did(Did(Did([x2 EXCEPT !.w = w4],
                    Event("Fprint", <<f[1]>>, 0, "")),
                Event("Fprint", <<f[2]>>, 0, "")),
            Event("Fprint", <<f[3]>>, 0, ""))

whepLayerHandler(x, r, rows, nd) ==
  LET x1 == Did(x, Event("whepLayerHandler", <<>>, 0, ""))
      d  == jsonDecode(r.json)
  IN
  IF d.err
    THEN logHTTPError(Did(x1, Event("Decode", <<>>, 0, "error")),
                      <<"json: cannot decode">>, StatusBadRequest)
  ELSE
    LET whepSessionId == lastSegment(r.uri)
        a  == engineWHEPChangeLayer(x1.eng, whepSessionId, d.EncodingId)
        x2 == Did(Did([x1 EXCEPT !.eng = a.eng], Event("Decode", <<>>, 0, "ok")),
                  Event("WHEPChangeLayer", <<whepSessionId, d.EncodingId>>, 0,
                        IF a.err THEN "error" ELSE "ok"))
    IN  IF a.err THEN logHTTPError(x2, engineError, StatusBadRequest) ELSE x2

streamsHandler(x, r, rows, nd) ==
  LET x1 == Did(x, Event("streamsHandler", <<>>, 0, ""))
      w1 == HeaderAdd(x1.w, "Content-Type", <<"application/json">>)
      g  == GetStreamKeys(rows, nd.dbOK, nd.order)
      x2 == Did([x1 EXCEPT !.w = w1],
                Event("GetStreamKeys", <<>>, 0, IF nd.dbOK THEN "ok" ELSE "error"))
  IN
  IF g.err
    THEN logHTTPError(x2, <<"Could not get stream keys">>, StatusBadRequest)
  ELSE
    LET out == jsonEncodeStrings(g.keys)
    IN  Did([x2 EXCEPT !.w = Write(@, out)], Event("Fprint", <<out>>, 0, ""))

\* The membership test inverted.
statusUnknown_inverted(streamKeys, streamKey) == Contains(streamKeys, streamKey)

\* !slices.Contains(streamKeys, streamKey)
statusUnknown(streamKeys, streamKey) == ~Contains(streamKeys, streamKey)

statusHandler(x, r, rows, nd) ==
  LET x1 == Did(x, Event("statusHandler", <<>>, 0, ""))
      w1 == HeaderAdd(x1.w, "Content-Type", <<"application/json">>)
      x2 == [x1 EXCEPT !.w = w1]
      streamKey == r.pathkey
  IN
  IF ~validateStreamKey(streamKey)
    THEN logHTTPError(x2, <<"Invalid stream key format">>, StatusBadRequest)
  ELSE
    LET g  == GetStreamKeys(rows, nd.dbOK, nd.order)
        x3 == Did(x2, Event("GetStreamKeys", <<>>, 0,
                            IF nd.dbOK THEN "ok" ELSE "error"))
    IN
    IF g.err
      THEN logHTTPError(x3, <<"Could not get stream keys">>, StatusBadRequest)
    ELSE IF statusUnknown(g.keys, streamKey)
      THEN logHTTPError(x3, <<"Stream does not exist">>, StatusNotFound)
    ELSE
      LET out == engineGetStreamStatus(streamKey) \o <<"\n">>
          x4  == Did(x3, Event("GetStreamStatus", <<streamKey>>, 0, "ok"))
      IN  Did([x4 EXCEPT !.w = Write(@, out)], Event("Fprint", <<out>>, 0, ""))

\* ------------------------------------------------------------ CORS wrapper

\* The wrapper's preflight test dropped (every method reaches the handler).
corsCallsNext_always(method) == TRUE

\* req.Method != http.MethodOptions
corsCallsNext(method) == method # "OPTIONS"

corsHeaders(w) ==
  LET w1 == HeaderSet(w, "Access-Control-Allow-Origin", <<"*">>)
      w2 == HeaderSet(w1, "Access-Control-Allow-Methods", <<"*">>)
      w3 == HeaderSet(w2, "Access-Control-Allow-Headers", <<"*">>)
  IN  HeaderSet(w3, "Access-Control-Expose-Headers", <<"*">>)

\* The URL path of a request URI: the part before the query.
urlPath(uri) ==
  IF \A i \in 1..Len(uri) : uri[i] # "?"
    THEN uri
    ELSE LET i == CHOOSE j \in 1..Len(uri) :
                    uri[j] = "?" /\ \A k \in 1..(j - 1) : uri[k] # "?"
         IN  SubSeq(uri, 1, i - 1)

\* The route whose pattern the mux matches against the URL path of a request
\* URI: /api/streams, /api/whip and /api/whep match that path only,
\* /api/status/{streamkey} one further non-empty segment, /api/sse/ and
\* /api/layer/ every path they begin.
muxRoute(uri) ==
  LET path == urlPath(uri) IN
  CASE path = <<"/", "a", "p", "i", "/", "s", "t", "r", "e", "a", "m", "s">> -> "streams"
    [] path = <<"/", "a", "p", "i", "/", "w", "h", "i", "p">> -> "whip"
    [] path = <<"/", "a", "p", "i", "/", "w", "h", "e", "p">> -> "whep"
    [] HasPrefix(path, <<"/", "a", "p", "i", "/", "s", "s", "e", "/">>) -> "sse"
    [] HasPrefix(path, <<"/", "a", "p", "i", "/", "l", "a", "y", "e", "r", "/">>) -> "layer"
    [] /\ HasPrefix(path, <<"/", "a", "p", "i", "/", "s", "t", "a", "t", "u", "s", "/">>)
       /\ Len(path) > 12
       /\ \A i \in 13..Len(path) : path[i] # "/" -> "status"
    [] OTHER -> ""

\* The handler that main wraps for the route of the request (the closure's
\* next).
next(x, r, rows, nd) ==
  CASE r.route = "streams" -> streamsHandler(x, r, rows, nd)
    [] r.route = "status" -> statusHandler(x, r, rows, nd)
    [] r.route = "whip" -> whipHandler(x, r, rows, nd)
    [] r.route = "whep" -> whepHandler(x, r, rows, nd)
    [] r.route = "sse" -> whepServerSentEventsHandler(x, r, rows, nd)
    [] r.route = "layer" -> whepLayerHandler(x, r, rows, nd)
    [] r.route = "whipPart000" -> whipHandlerPart000(x, r, rows, nd)

corsHandler(x, r, rows, nd) ==
  LET x1 == [x EXCEPT !.w = corsHeaders(@)]
  IN  IF corsCallsNext(r.method) THEN next(x1, r, rows, nd) ELSE x1

\* The server's end of a request: a panic is recovered and the connection is
\* closed with nothing of the buffered response sent; otherwise a response
\* that never had a status written goes out as 200.
Finish(x) ==
  IF x.panicked THEN x ELSE [x EXCEPT !.w = WriteHeader(@, StatusOK)]

\* ---------------------------------------------------------------- requests

Request(route, method, auth, uri, body, json, pathkey) ==
  [route |-> route, method |-> method, auth |-> auth, host |-> <<"h">>,
   uri |-> uri, body |-> body, json |-> json, pathkey |-> pathkey]

NoRequest == Request("", "", <<>>, <<>>, <<>>, JSONOther("empty"), <<>>)

Bearer(k) == bearerPrefix \o k
BearerPair(k, s) == bearerPrefix \o k \o <<";">> \o s

\* Authorization header values: absent, another scheme, the prefix alone,
\* a key alone, key and secret (right, wrong, unregistered, malformed key),
\* and a third component.
AuthHeaders ==
  { <<>>, <<"B", "a", "s", "i", "c", " ", "x">>, bearerPrefix,
    Bearer(k1), Bearer(kBad),
    BearerPair(k1, s1), BearerPair(k1, s2), BearerPair(kBad, s1),
    BearerPair(k1, s1) \o <<";", "x">> }

\* For the WHIP route also a key no row holds and the malformed key with
\* its row's secret.
WhipAuthHeaders == AuthHeaders \cup { BearerPair(k9, s1), BearerPair(kBad, s2) }

Offers == { <<"v=0 offer">> }

uriWhip == <<"/", "a", "p", "i", "/", "w", "h", "i", "p">>
uriWhep == <<"/", "a", "p", "i", "/", "w", "h", "e", "p">>
uriSSE == <<"/", "a", "p", "i", "/", "s", "s", "e", "/">>
uriLayer == <<"/", "a", "p", "i", "/", "l", "a", "y", "e", "r", "/">>
uriStreams == <<"/", "a", "p", "i", "/", "s", "t", "r", "e", "a", "m", "s">>
uriStatus == <<"/", "a", "p", "i", "/", "s", "t", "a", "t", "u", "s", "/">>

\* POST is sent with every header; the methods that never reach the token
\* check are sent with a few.
FewAuthHeaders == { <<>>, BearerPair(k1, s1), Bearer(kBad) }

WhipRequests ==
  { Request("whip", "POST", a, uriWhip, b, JSONOther("empty"), <<>>) :
      a \in WhipAuthHeaders, b \in Offers }
  \cup
  { Request("whip", m, a, uriWhip, b, JSONOther("empty"), <<>>) :
      m \in {"DELETE", "OPTIONS"}, a \in FewAuthHeaders, b \in Offers }

\* The same requests to the build of unnamed/part_000.
WhipRequestsPart000 == { [r EXCEPT !.route = "whipPart000"] : r \in WhipRequests }

WhepRequests ==
  { Request("whep", "POST", a, uriWhep, b, JSONOther("empty"), <<>>) :
      a \in AuthHeaders, b \in Offers }
  \cup
  { Request("whep", "POST", a, uriWhep \o <<"?", "a">>, b, JSONOther("empty"), <<>>) :
      a \in {Bearer(k1)}, b \in Offers }
  \cup
  { Request("whep", "OPTIONS", a, uriWhep, b, JSONOther("empty"), <<>>) :
      a \in FewAuthHeaders, b \in Offers }

\* Session ids a client may name: minted ones and one never minted.
NamedIds == { SessionId(n) : n \in 1..MaxSessions } \cup { <<"z">> }

SseRequests ==
  { Request("sse", m, <<>>, uriSSE \o id, <<>>, JSONOther("empty"), <<>>) :
      m \in {"GET", "OPTIONS"}, id \in NamedIds }

encHigh == <<"h">>

LayerBodies ==
  { JSONObject(StringField(<<"1">>), StringField(encHigh)),
    JSONObject(StringField(<<"1">>), NoField),
    JSONObject(NoField, NoField),
    JSONObject(NoField, NumberField),
    JSONOther("null"), JSONOther("array"), JSONOther("syntax"),
    JSONOther("empty") }

LayerRequests ==
  { Request("layer", m, <<>>, uriLayer \o id, <<>>, j, <<>>) :
      m \in {"POST", "OPTIONS"}, id \in NamedIds, j \in LayerBodies }

StreamsRequests ==
  { Request("streams", m, <<>>, uriStreams, <<>>, JSONOther("empty"), <<>>) :
      m \in {"GET", "OPTIONS"} }

StatusRequests ==
  { Request("status", m, <<>>, uriStatus \o k, <<>>, JSONOther("empty"), k) :
      m \in {"GET", "OPTIONS"}, k \in {k1, k2, k9, kBad} }

LayerLists ==
  { <<"[", "]">>,
    <<"[", "{\"mediaId\":\"1\",\"encodingId\":\"h\"}", "]">> }

KeyOrders == { <<k1, k2, kBad>>, <<kBad, k2, k1>> }

Draw(dbOK, bodyOK, engineOK, layers, order) ==
  [dbOK |-> dbOK, bodyOK |-> bodyOK, engineOK |-> engineOK,
   layers |-> layers, order |-> order]

\* ------------------------------------------------------------------- state

\* store: the rows of the streamers table.  engine: the media engine's
\* registry.  last: the request handled most recently since the store and
\* the registry last changed from outside, with its finished execution and
\* whether it changed the registry; store holds the rows it was handled on.
\* store: the rows of the streamers table.  engine: the media engine's
\* registry.  last: the request handled last and its execution.
\* checkedOut: the connections of dbPool that are acquired and not released.
\* alive: the process runs.  probe: the last application of a pure function.
VARIABLES store, engine, last, checkedOut, alive, probe

vars == <<store, engine, last, checkedOut, alive, probe>>

NoLast == [req |-> NoRequest, x |-> NewExec(NewEngine), engChanged |-> FALSE]

NoProbe == [fn |-> "", in |-> <<>>, ok |-> FALSE, token |-> <<>>]

Init ==
  /\ store \in Stores
  /\ engine = NewEngine
  /\ last = NoLast
  /\ checkedOut = 0
  /\ alive = TRUE
  /\ probe = NoProbe

\* A draw other than the usual one (the store answers, the body is read, the
\* engine refuses) is one the execution came to.
Used(x, nd) ==
  /\ ~nd.dbOK =>
       \E i \in 1..Len(x.ev) :
         x.ev[i].op \in {"NewStreamer", "GetStreamKeys", "Acquire"}
         /\ x.ev[i].res = "error"
  /\ ~nd.bodyOK =>
       \E i \in 1..Len(x.ev) : x.ev[i].op = "ReadAll" /\ x.ev[i].res = "error"
  /\ nd.engineOK =>
       \E i \in 1..Len(x.ev) : x.ev[i].op \in {"WHIP", "WHEP"} /\ x.ev[i].res = "ok"

\* One request, from the mux's dispatch to the end of the response.
Handled(r, nd) ==
  LET x == Finish(corsHandler(NewExec(engine), r, store, nd)) IN
  /\ alive = TRUE
  /\ Used(x, nd)
  /\ last' = [req |-> r, x |-> x, engChanged |-> x.eng # engine]
  /\ engine' = x.eng
  /\ UNCHANGED <<store, checkedOut, alive, probe>>

\* A draw is made only where the handler can reach it: a preflight and a
\* DELETE draw nothing, the body is read only after the store answered, the
\* engine is called only after the body was read.
Reachable(r, dbOK, bodyOK, engineOK) ==
  /\ r.method \in {"OPTIONS", "DELETE"} => dbOK /\ bodyOK /\ ~engineOK
  /\ ~dbOK => bodyOK /\ ~engineOK
  /\ ~bodyOK => ~engineOK

\* POST, DELETE, OPTIONS /api/whip
ServeWhip ==
  \E r \in WhipRequests, dbOK \in BOOLEAN, bodyOK \in BOOLEAN, engineOK \in BOOLEAN :
    /\ engineOK => engine.minted < MaxSessions
    /\ Reachable(r, dbOK, bodyOK, engineOK)
    /\ Handled(r, Draw(dbOK, bodyOK, engineOK, <<>>, <<>>))

\* POST, OPTIONS /api/whep
ServeWhep ==
  \E r \in WhepRequests, bodyOK \in BOOLEAN, engineOK \in BOOLEAN :
    /\ engineOK => engine.minted < MaxSessions
    /\ Reachable(r, TRUE, bodyOK, engineOK)
    /\ Handled(r, Draw(TRUE, bodyOK, engineOK, <<>>, <<>>))

\* GET, OPTIONS /api/sse/{id}
ServeSSE ==
  \E r \in SseRequests, layers \in LayerLists :
    /\ r.method = "OPTIONS" => layers = <<"[", "]">>
    /\ Handled(r, Draw(TRUE, TRUE, FALSE, layers, <<>>))

\* POST, OPTIONS /api/layer/{id}
ServeLayer ==
  \E r \in LayerRequests :
    /\ r.method = "OPTIONS" => r.json = JSONOther("empty")
    /\ Handled(r, Draw(TRUE, TRUE, FALSE, <<>>, <<>>))

\* GET, OPTIONS /api/streams
ServeStreams ==
  \E r \in StreamsRequests, dbOK \in BOOLEAN, order \in KeyOrders :
    /\ Reachable(r, dbOK, TRUE, FALSE)
    /\ ~dbOK => order = <<k1, k2, kBad>>
    /\ Handled(r, Draw(dbOK, TRUE, FALSE, <<>>, order))

\* GET, OPTIONS /api/status/{streamkey}
ServeStatus ==
  \E r \in StatusRequests, dbOK \in BOOLEAN, order \in KeyOrders :
    /\ Reachable(r, dbOK, TRUE, FALSE)
    /\ ~dbOK => order = <<k1, k2, kBad>>
    /\ Handled(r, Draw(dbOK, TRUE, FALSE, <<>>, order))

\* The store is maintained from outside: a row is added or removed.
StoreInsert ==
  \E c \in Credentials \ store :
    /\ store \cup {c} \in Stores
    /\ store' = store \cup {c}
    /\ last' = NoLast
    /\ UNCHANGED <<engine, checkedOut, alive, probe>>

StoreDelete ==
  \E c \in store :
    /\ store' = store \ {c}
    /\ last' = NoLast
    /\ UNCHANGED <<engine, checkedOut, alive, probe>>

\* A row's secret is changed.
StoreUpdate ==
  \E c \in store, d \in Credentials \ store :
    /\ d.name = c.name /\ d.keys = c.keys
    /\ store' = (store \ {c}) \cup {d}
    /\ last' = NoLast
    /\ UNCHANGED <<engine, checkedOut, alive, probe>>

\* The engine ends a session on disconnect.
EngineDisconnect ==
  \E i \in 1..Len(engine.sessions) :
    /\ alive
    /\ engine' = [engine EXCEPT !.sessions =
                    SubSeq(@, 1, i - 1) \o SubSeq(@, i + 1, Len(@))]
    /\ last' = NoLast
    /\ UNCHANGED <<store, checkedOut, alive, probe>>

Next ==
  \/ ServeWhip
  \/ ServeWhep
  \/ ServeSSE
  \/ ServeLayer
  \/ ServeStreams
  \/ ServeStatus
  \/ StoreInsert
  \/ StoreDelete
  \/ StoreUpdate
  \/ EngineDisconnect

Spec == Init /\ [][Next]_vars

\* ------------------------------------------ the build of unnamed/part_000

\* POST, DELETE, OPTIONS /api/whip.  A request that comes to dbPool.Acquire
\* when every connection is checked out waits there (dbCtx has no deadline),
\* so it is handled only while a connection is left.  After log.Fatal
\* nothing of the response is sent.
ServeWhipPart000 ==
  \E r \in WhipRequestsPart000, dbOK \in BOOLEAN, bodyOK \in BOOLEAN,
     engineOK \in BOOLEAN :
    LET x0 == corsHandler(NewExec(engine), r, store,
                          Draw(dbOK, bodyOK, engineOK, <<>>, <<>>))
        x  == IF Exited(x0) THEN x0 ELSE Finish(x0)
    IN
    /\ alive = TRUE
    /\ engineOK => engine.minted < MaxSessions
    /\ Reachable(r, dbOK, bodyOK, engineOK)
    /\ Used(x, Draw(dbOK, bodyOK, engineOK, <<>>, <<>>))
    /\ (r.method = "POST" /\ r.auth # <<>>) => checkedOut < PoolSize
    /\ last' = [req |-> r, x |-> x, engChanged |-> x.eng # engine]
    /\ engine' = x.eng
    /\ checkedOut' = checkedOut + Held(x)
    /\ alive' = ~Exited(x)
    /\ UNCHANGED <<store, probe>>

NextPart000 ==
  \/ ServeWhipPart000
  \/ StoreInsert
  \/ StoreDelete
  \/ StoreUpdate
  \/ EngineDisconnect

SpecPart000 == Init /\ [][NextPart000]_vars

\* ------------------------------------------- the pure functions on their own

\* Texts of at most n characters of the set chars.
Texts(chars, n) == UNION { [1..m -> chars] : m \in 0..n }

\* Characters outside the stream-key class, among them the neighbours of the
\* class's ranges in the character table.
OtherChars == { "!", " ", ";", "/", ":", "@", "[", "{", "\n" }

KeyChars == { "a", "Z", "9", "-", "~", "!", " ", "\n" }

\* The keys validateStreamKey is given: the empty key, every single
\* character, and longer keys of a few characters.
KeyInputs ==
  Texts(KeyClass \cup OtherChars, 1) \cup Texts(KeyChars, MaxKeyLen)

HeaderPrefixes ==
  { bearerPrefix, <<"B", "e", "a", "r", "e", "r">>,
    <<"b", "e", "a", "r", "e", "r", " ">>, <<"B", "a", "s", "i", "c", " ">>,
    <<" ">> \o bearerPrefix, <<>> }

\* The headers extractBearerToken is given.
HeaderInputs ==
  { p \o t : p \in HeaderPrefixes, t \in Texts({"a", "b", ";"}, MaxRestLen) }

InitPure ==
  /\ store = {}
  /\ engine = NewEngine
  /\ last = NoLast
  /\ checkedOut = 0
  /\ alive = TRUE
  /\ probe = NoProbe

ApplyValidateStreamKey ==
  \E k \in KeyInputs :
    /\ probe = NoProbe
    /\ probe' = [fn |-> "validateStreamKey", in |-> k,
                 ok |-> validateStreamKey(k), token |-> <<>>]
    /\ UNCHANGED <<store, engine, last, checkedOut, alive>>

ApplyExtractBearerToken ==
  \E h \in HeaderInputs :
    /\ probe = NoProbe
    /\ LET t == extractBearerToken(h) IN
       probe' = [fn |-> "extractBearerToken", in |-> h,
                 ok |-> t.ok, token |-> t.token]
    /\ UNCHANGED <<store, engine, last, checkedOut, alive>>

NextPure ==
  \/ ApplyValidateStreamKey
  \/ ApplyExtractBearerToken

SpecPure == InitPure /\ [][NextPure]_vars

\* -------------------------------------------------- reading a finished run

\* The request in last is one of route, sent with method.
Is(route, method) == last.req.route = route /\ last.req.method = method

\* The events of the last request's handling named op.
EventsOf(op) == SelectSeq(last.x.ev, LAMBDA e : e.op = op)
Called(op) == Len(EventsOf(op)) > 0

StoreOps == {"NewStreamer", "GetStreamKeys"}
EngineOps == {"WHIP", "WHEP", "WHEPLayers", "WHEPChangeLayer", "GetStreamStatus"}
CalledAny(ops) == \E i \in 1..Len(last.x.ev) : last.x.ev[i].op \in ops

\* The client receives a response with this status.
Answered(code) == ~last.x.panicked /\ last.x.w.status = code

\* The text of header value h before its first ';' (all of it if none).
UpToSemicolon(h) ==
  LET n == CHOOSE m \in 0..Len(h) :
             /\ \A i \in 1..m : h[i] # ";"
             /\ m < Len(h) => h[m + 1] = ";"
  IN  SubSeq(h, 1, n)

\* Keys of the stream-key character class, and secrets, that requests carry.
WellFormedKeys == {k1, k2, k9}
Secrets == {s1, s2}

\* ------------------------------------------------------------------ claims

\* C1: a WHIP POST whose Authorization header is Bearer <key>;<secret> with a
\* key of the stream-key character class, handled while the store holds no
\* row whose stream keys contain the key and whose secret equals the secret,
\* is answered 403 and the engine's ingest negotiation is not invoked.
C1_UnregisteredIs403 ==
  \A k \in WellFormedKeys, s \in Secrets :
    ( /\ Is("whip", "POST")
      /\ last.req.auth = BearerPair(k, s)
      /\ ~\E c \in store : k \in c.keys /\ c.secret = s )
    => Answered(StatusForbidden) /\ ~Called("WHIP")

\* A registered key presented with another row's secret was turned away.
C1_Witness ==
  /\ Is("whip", "POST")
  /\ last.req.auth = BearerPair(k1, s2)
  /\ \E c \in store : k1 \in c.keys
  /\ \E c \in store : c.secret = s2
  /\ Answered(StatusForbidden)

\* C2: a WHIP request whose Authorization header lacks the Bearer prefix, or
\* whose stream-key component is not of the character class, is answered 400
\* and the credential store is not queried for it.
C2_MalformedEndsBeforeStore ==
  ( /\ Is("whip", "POST")
    /\ \/ ~HasPrefix(last.req.auth, bearerPrefix)
       \/ TrimPrefix(UpToSemicolon(last.req.auth), bearerPrefix) \notin WellFormedKeys )
  => last.x.w.status = StatusBadRequest /\ ~CalledAny(StoreOps)

\* C3: a WHIP request whose credential lookup failed for a reason other than
\* no matching row is not answered 403 "Not an authorized streamer".
C3_StoreFailureIsNot403 ==
  ( /\ last.req.route = "whip"
    /\ \E i \in 1..Len(last.x.ev) :
         last.x.ev[i].op = "NewStreamer" /\ last.x.ev[i].res = "error" )
  => /\ last.x.w.status # StatusForbidden
     /\ \A i \in 1..Len(last.x.ev) :
          last.x.ev[i].op = "logHTTPError"
            => last.x.ev[i].arg # << <<"Not an authorized streamer">> >>

\* The target of a Link header value: the text between "<" and ">".
LinkTarget(v) ==
  LET n == CHOOSE m \in 1..Len(v) : v[m] = ">" /\ \A i \in 1..(m - 1) : v[i] # ">"
  IN  SubSeq(v, 2, n - 1)

\* The rel parameter of a Link header value.
LinkRel(v) ==
  LET n == CHOOSE m \in 1..Len(v) : v[m] = "; rel=\""
  IN  <<v[n + 1]>>

\* C4: a WHEP POST for which the engine's egress negotiation succeeded with
\* session id S is answered 201 with Location /api/whep, Content-Type
\* application/sdp, the engine's answer as body and exactly two Link headers:
\* one of rel server-sent-events with a target ending in sse/S, one of rel
\* layer with a target ending in layer/S.
C4_WhepCreated ==
  \A i \in 1..Len(last.x.ev) :
    ( /\ Is("whep", "POST")
      /\ last.x.ev[i].op = "WHEP"
      /\ last.x.ev[i].res = "ok" )
    => LET S == last.x.ev[i].arg[3]
           links == HeaderValues(last.x.w.sent, "Link")
       IN  /\ Answered(StatusCreated)
           /\ HeaderValues(last.x.w.sent, "Location") = << <<"/api/whep">> >>
           /\ HeaderValues(last.x.w.sent, "Content-Type") = << <<"application/sdp">> >>
           /\ last.x.w.body = engineAnswer
           /\ Len(links) = 2
           /\ \E a, b \in 1..2 :
                /\ a # b
                /\ LinkRel(links[a]) = relSSE
                /\ HasSuffix(LinkTarget(links[a]), <<"s", "s", "e", "/">> \o S)
                /\ LinkRel(links[b]) = relLayer
                /\ HasSuffix(LinkTarget(links[b]),
                             <<"l", "a", "y", "e", "r", "/">> \o S)

\* An unregistered viewer's WHEP POST was answered 201 for a minted session.
C4_Witness ==
  /\ Is("whep", "POST")
  /\ last.req.auth = Bearer(k1)
  /\ Called("WHEP")
  /\ Answered(StatusCreated)
  /\ SessionId(1) \in WhepIds(engine)

\* C5: when the engine knows the session id, the SSE handler's body is
\* exactly "event: layers\n", "data: <layers JSON>\n" and the terminator
\* "\n\n", and the engine's layer query was made exactly once.
C5_OneLayersFrame ==
  ( /\ Is("sse", "GET")
    /\ \E i \in 1..Len(last.x.ev) :
         last.x.ev[i].op = "WHEPLayers" /\ last.x.ev[i].res = "ok" )
  => /\ \E layers \in LayerLists :
          last.x.w.body =
            <<"event: layers", "\n", "data: ">> \o layers \o <<"\n", "\n", "\n">>
     /\ Len(EventsOf("WHEPLayers")) = 1
     /\ Answered(StatusOK)

\* The layers of the minted session were sent as a non-empty list.
C5_Witness ==
  /\ Is("sse", "GET")
  /\ lastSegment(last.req.uri) = SessionId(1)
  /\ Len(last.x.w.body) = 9
  /\ Answered(StatusOK)

Undecodable(doc) ==
  \/ doc.kind \in {"empty", "syntax", "array"}
  \/ doc.kind = "object" /\ doc.mediaId.present /\ ~doc.mediaId.isString
  \/ doc.kind = "object" /\ doc.encodingId.present /\ ~doc.encodingId.isString

CorsNames ==
  <<"Access-Control-Allow-Origin", "Access-Control-Allow-Methods",
    "Access-Control-Allow-Headers", "Access-Control-Expose-Headers">>
CorsOnly == [i \in 1..4 |-> <<CorsNames[i], <<"*">> >>]

\* The handler the mux registers for each route.
Routes == {"streams", "status", "whip", "whep", "sse", "layer"}
HandlerNames ==
  {"streamsHandler", "statusHandler", "whipHandler", "whepHandler",
   "whepServerSentEventsHandler", "whepLayerHandler"}
HandlerOf(route) ==
  CASE route = "streams" -> "streamsHandler"
    [] route = "status" -> "statusHandler"
    [] route = "whip" -> "whipHandler"
    [] route = "whep" -> "whepHandler"
    [] route = "sse" -> "whepServerSentEventsHandler"
    [] route = "layer" -> "whepLayerHandler"

\* C7: on every API route an OPTIONS request sets the four wildcard
\* Access-Control headers and nothing else (no handler, no store access, no
\* engine call, no body); any other request gets the same four headers and
\* the route's handler is invoked exactly once.
C7_CorsPreflight ==
  last.req.route \in Routes =>
    IF last.req.method = "OPTIONS"
      THEN /\ last.x.w.header = CorsOnly
           /\ last.x.w.sent = CorsOnly
           /\ last.x.w.body = <<>>
           /\ last.x.ev = <<>>
           /\ ~last.engChanged
           /\ Answered(StatusOK)
      ELSE /\ \A i \in 1..4 :
                HeaderValues(last.x.w.header, CorsNames[i]) = << <<"*">> >>
           /\ ~last.x.panicked =>
                \A i \in 1..4 :
                  HeaderValues(last.x.w.sent, CorsNames[i]) = << <<"*">> >>
           /\ SelectSeq(last.x.ev, LAMBDA e : e.op \in HandlerNames)
                = <<Event(HandlerOf(last.req.route), <<>>, 0, "")>>

\* A preflight of the WHIP route carrying a registered credential.
C7_Witness ==
  /\ Is("whip", "OPTIONS")
  /\ last.req.auth = BearerPair(k1, s1)
  /\ \E c \in store : k1 \in c.keys /\ c.secret = s1
  /\ last.x.w.sent = CorsOnly

\* The keys the store's enumeration gave the last request.
Enumerated ==
  IF \E i \in 1..Len(last.x.ev) :
       last.x.ev[i].op = "GetStreamKeys" /\ last.x.ev[i].res = "ok"
    THEN UNION { c.keys : c \in store }
    ELSE {}

\* C8: a status GET for a key of the character class that is not among the
\* keys enumerated from the store is answered 404 without the engine's
\* status query; a key not of the class is answered 400 before the store is
\* queried.
C8_StatusUnknownIs404 ==
  Is("status", "GET") =>
    /\ (last.req.pathkey \in WellFormedKeys /\ last.req.pathkey \notin Enumerated)
         => Answered(StatusNotFound) /\ ~Called("GetStreamStatus")
    /\ last.req.pathkey \notin WellFormedKeys
         => Answered(StatusBadRequest) /\ ~CalledAny(StoreOps)

\* An unregistered key was looked for among the keys of a non-empty store.
C8_Witness ==
  /\ Is("status", "GET")
  /\ last.req.pathkey = k9
  /\ Enumerated # {}
  /\ Answered(StatusNotFound)

\* C9: a DELETE to the WHIP endpoint is answered 200 with an empty body,
\* without store access or engine call, and no session is created or ended.
C9_DeleteIsNoOp ==
  Is("whip", "DELETE") =>
    /\ Answered(StatusOK)
    /\ last.x.w.body = <<>>
    /\ ~CalledAny(StoreOps)
    /\ ~CalledAny(EngineOps)
    /\ ~last.engChanged

\* A DELETE carrying a registered credential.
C9_Witness ==
  /\ Is("whip", "DELETE")
  /\ last.req.auth = BearerPair(k1, s1)
  /\ \E c \in store : k1 \in c.keys /\ c.secret = s1
  /\ Answered(StatusOK)

\* C10: a WHEP POST never accesses the store, and its status and engine call
\* are fixed by the header up to its first ';', the offer body and the
\* engine's result: the engine is called, with the body and the key, exactly
\* if that part of the header is Bearer and a key of the class and the body
\* was read; the status is 201 exactly if the engine accepted, else 400.
C10_WhepIgnoresSecret ==
  Is("whep", "POST") =>
    LET calls == EventsOf("WHEP")
        reads == EventsOf("ReadAll")
        first == UpToSemicolon(last.req.auth)
    IN  /\ ~CalledAny(StoreOps)
        /\ IF first \in { Bearer(k) : k \in WellFormedKeys }
             THEN /\ Len(reads) = 1
                  /\ IF reads[1].res = "ok"
                       THEN /\ Len(calls) = 1
                            /\ calls[1].arg[1] = last.req.body
                            /\ calls[1].arg[2] = TrimPrefix(first, bearerPrefix)
                            /\ Answered(IF calls[1].res = "ok" THEN StatusCreated
                                        ELSE StatusBadRequest)
                       ELSE calls = <<>> /\ Answered(StatusBadRequest)
             ELSE calls = <<>> /\ reads = <<>> /\ Answered(StatusBadRequest)

\* A registered key with the wrong secret was admitted as a viewer.
C10_Witness ==
  /\ Is("whep", "POST")
  /\ last.req.auth = BearerPair(k1, s2)
  /\ \E c \in store : k1 \in c.keys /\ c.secret # s2
  /\ Called("WHEP")
  /\ Answered(StatusCreated)

\* ---------------------------------------------------------------- C11

\* The part of the request URI that follows the route's prefix.
PathAfter(prefix) == SubSeq(last.req.uri, Len(prefix) + 1, Len(last.req.uri))

\* C11: for a session id the engine does not know, the SSE handler and the
\* layer handler answer 400 without crashing and change no session; the SSE
\* handler's 400 carries the engine's error and no layers frame, and so does
\* the layer handler's when its body decoded.
C11_UnknownSessionIs400 ==
  /\ ( Is("sse", "GET") /\ PathAfter(uriSSE) \notin WhepIds(engine) )
     => /\ Answered(StatusBadRequest)
        /\ last.x.w.body = engineError \o <<"\n">>
        /\ ~Contains(last.x.w.body, "event: layers")
        /\ ~last.engChanged
  /\ ( Is("layer", "POST") /\ PathAfter(uriLayer) \notin WhepIds(engine) )
     => /\ Answered(StatusBadRequest)
        /\ ~Undecodable(last.req.json) => last.x.w.body = engineError \o <<"\n">>
        /\ ~last.engChanged

\* The SSE handler refused an id the engine never minted while an egress
\* session is live.
C11_Witness ==
  /\ Is("sse", "GET")
  /\ PathAfter(uriSSE) = <<"z">>
  /\ WhepIds(engine) # {}
  /\ Answered(StatusBadRequest)

\* ---------------------------------------------------------------- C12

Letters ==
  { "a", "b", "c", "d", "e", "f", "g", "h", "i", "j", "k", "l", "m", "n", "o",
    "p", "q", "r", "s", "t", "u", "v", "w", "x", "y", "z", "A", "B", "C", "D",
    "E", "F", "G", "H", "I", "J", "K", "L", "M", "N", "O", "P", "Q", "R", "S",
    "T", "U", "V", "W", "X", "Y", "Z" }

DecimalDigits == { "0", "1", "2", "3", "4", "5", "6", "7", "8", "9" }

\* C12: validateStreamKey(s) is true exactly when s is non-empty and every
\* character of s is a letter, a decimal digit or one of _ - . ~
C12_KeyClassExactly ==
  probe.fn = "validateStreamKey"
  => ( probe.ok <=>
         /\ probe.in # <<>>
         /\ \A i \in 1..Len(probe.in) :
              probe.in[i] \in Letters \cup DecimalDigits \cup {"_", "-", ".", "~"} )

\* A key of two characters of the class was accepted.
C12_Witness ==
  /\ probe.fn = "validateStreamKey"
  /\ probe.in = <<"Z", "~">>
  /\ probe.ok

\* ---------------------------------------------------------------- C13

RECURSIVE JoinSemicolon(_)
JoinSemicolon(list) ==
  IF Len(list) = 1 THEN list[1]
  ELSE list[1] \o <<";">> \o JoinSemicolon(Tail(list))

\* C13: extractBearerToken(h) is (nil, false) when h does not start with
\* "Bearer "; otherwise it is (list, true) where list has at least one
\* component, no component holds a ';' and the components joined by ';' are
\* the text after the prefix.  "Bearer a;b" gives [a, b], "Bearer " gives [""].
C13_BearerSplit ==
  probe.fn = "extractBearerToken"
  => LET h == probe.in
         prefixed == Len(h) >= 7 /\ SubSeq(h, 1, 7) = <<"B", "e", "a", "r", "e", "r", " ">>
     IN
     /\ ~prefixed => ~probe.ok /\ probe.token = Nil
     /\ prefixed =>
          /\ probe.ok
          /\ Len(probe.token) >= 1
          /\ \A i \in 1..Len(probe.token) : ~Contains(probe.token[i], ";")
          /\ JoinSemicolon(probe.token) = SubSeq(h, 8, Len(h))
     /\ h = <<"B", "e", "a", "r", "e", "r", " ", "a", ";", "b">>
          => probe.token = << <<"a">>, <<"b">> >>
     /\ h = <<"B", "e", "a", "r", "e", "r", " ">> => probe.token = << <<>> >>

\* "Bearer a;;" was split into three components, the last two empty.
C13_Witness ==
  /\ probe.fn = "extractBearerToken"
  /\ probe.in = <<"B", "e", "a", "r", "e", "r", " ", "a", ";", ";">>
  /\ probe.ok
  /\ probe.token = << <<"a">>, <<>>, <<>> >>

\* ---------------------------------------------------------------- C14

\* C14: no WHIP or WHEP request ends in a read of a token component that
\* does not exist, and a WHIP request whose token has fewer than two
\* components is answered 400 without the store being asked.
C14_TokenIndexInBounds ==
  /\ ( Is("whip", "POST") \/ Is("whep", "POST") ) => ~last.x.panicked
  /\ ( Is("whip", "POST") /\ Len(extractBearerToken(last.req.auth).token) < 2 )
     => Answered(StatusBadRequest) /\ ~CalledAny(StoreOps)

\* ---------------------------------------------------------------- C15

\* C15: a WHIP request reaches the engine's ingest negotiation only after its
\* stream key passed the character-class check and the store returned a row
\* whose key set holds that key and whose secret is the presented one; the
\* key given to the engine is that key; 201 is written only after the
\* engine's call succeeded.
C15_IngestOnlyWhenAuthorized ==
  Is("whip", "POST") =>
    LET token == extractBearerToken(last.req.auth).token
        ev    == last.x.ev
    IN
    /\ \A i \in 1..Len(ev) :
         ev[i].op = "WHIP" =>
           /\ Len(token) >= 2
           /\ validateStreamKey(token[1])
           /\ \E j \in 1..(i - 1) : ev[j].op = "NewStreamer" /\ ev[j].res = "row"
           /\ \E c \in store : token[1] \in c.keys /\ c.secret = token[2]
           /\ ev[i].arg[2] = token[1]
    /\ \A i \in 1..Len(ev) :
         ( ev[i].op = "WriteHeader" /\ ev[i].code = StatusCreated ) =>
           \E j \in 1..(i - 1) : ev[j].op = "WHIP" /\ ev[j].res = "ok"

\* ---------------------------------------------------------------- C16

\* C16: between requests no connection of the pool is checked out: every
\* connection acquired while a request was handled has been released when
\* the request is done.
C16_ConnectionsReleased == checkedOut = 0

\* ---------------------------------------------------------------- C17

\* C17: whether a WHIP request with a well-formed key and a secret is
\* authorized is decided by the rows the store holds when the request looks
\* them up, whatever the store held before and whatever was answered
\* before: with no row for key and secret the answer is 403 and the engine
\* is not called; with such a row, and the store answering, the lookup
\* finds it and the request goes on to its body.
C17_AuthorizedByCurrentStore ==
  LET token   == extractBearerToken(last.req.auth).token
      matches == { c \in store : token[1] \in c.keys /\ c.secret = token[2] }
  IN
  ( Is("whip", "POST") /\ Len(token) >= 2 /\ token[1] \in WellFormedKeys )
  => /\ matches = {} => Answered(StatusForbidden) /\ ~Called("WHIP")
     /\ ( matches # {}
          /\ \E i \in 1..Len(last.x.ev) :
               last.x.ev[i].op = "NewStreamer" /\ last.x.ev[i].res # "error" )
        => /\ last.x.w.status # StatusForbidden
           /\ Called("ReadAll")

\* The key and secret that opened the live ingest session (of the secrets
\* presented for k1, only s1 is ever a row's) are refused now that the row's
\* secret is another.
C17_Witness ==
  /\ Is("whip", "POST")
  /\ last.req.auth = BearerPair(k1, s1)
  /\ \E i \in 1..Len(engine.sessions) :
       engine.sessions[i].dir = "ingest" /\ engine.sessions[i].key = k1
  /\ \E c \in store : k1 \in c.keys /\ c.secret = s3
  /\ Answered(StatusForbidden)

\* ---------------------------------------------------------------- C18

\* C18: when the store's enumeration query fails, the streams handler and
\* the status handler answer 400 "Could not get stream keys": the failure
\* is not answered as an empty list (a 200 listing, or 404 for the key).
C18_EnumerationFailureIs400 ==
  ( /\ Is("streams", "GET") \/ Is("status", "GET")
    /\ \E i \in 1..Len(last.x.ev) :
         last.x.ev[i].op = "GetStreamKeys" /\ last.x.ev[i].res = "error" )
  => /\ Answered(StatusBadRequest)
     /\ last.x.w.body = <<"Could not get stream keys", "\n">>

\* ---------------------------------------------------------------- C19

\* C19: whatever fails while a request is handled, a failed acquisition of
\* a store connection included, the process goes on running.
C19_ProcessSurvives == alive = TRUE

\* ---------------------------------------------------------------- C20

\* C20: once a handler has written an error through logHTTPError it makes
\* no store access, no engine call and no response write: no request gets
\* two error messages, or an error and then a success.
C20_OneOutcome ==
  \A i, j \in 1..Len(last.x.ev) :
    ( i < j /\ last.x.ev[i].op = "logHTTPError" )
    => last.x.ev[j].op \notin
         StoreOps \cup EngineOps \cup {"logHTTPError", "WriteHeader", "Fprint"}

\* ---------------------------------------------------------------- C21

\* The request URI a client sends for a link target: the target after the
\* host it begins with.
TargetURI(target) == TrimPrefix(target, last.req.host)

\* C21: for a successful WHEP POST to a request path ending in whep that
\* minted session id S, the two link targets are (after the host) that path
\* with the trailing whep removed followed by sse/S and by layer/S; the mux
\* routes a request to the first to the SSE handler and to the second to the
\* layer handler, and the last path segment that handler reads is S.
C21_LinkRoundTrip ==
  \A i \in 1..Len(last.x.ev) :
    ( /\ Is("whep", "POST")
      /\ last.x.ev[i].op = "WHEP"
      /\ last.x.ev[i].res = "ok"
      /\ HasSuffix(urlPath(last.req.uri), <<"w", "h", "e", "p">>) )
    => LET S     == last.x.ev[i].arg[3]
           links == HeaderValues(last.x.w.sent, "Link")
           base  == last.req.host
                    \o TrimSuffix(urlPath(last.req.uri), <<"w", "h", "e", "p">>)
       IN  /\ Len(links) = 2
           /\ \E a, b \in 1..2 :
                /\ LinkTarget(links[a]) = base \o <<"s", "s", "e", "/">> \o S
                /\ muxRoute(TargetURI(LinkTarget(links[a]))) = "sse"
                /\ lastSegment(TargetURI(LinkTarget(links[a]))) = S
                /\ LinkTarget(links[b])
                     = base \o <<"l", "a", "y", "e", "r", "/">> \o S
                /\ muxRoute(TargetURI(LinkTarget(links[b]))) = "layer"
                /\ lastSegment(TargetURI(LinkTarget(links[b]))) = S

\* The same for the WHEP POSTs whose request URI carries no query.
C21_LinkRoundTripNoQuery ==
  urlPath(last.req.uri) = last.req.uri => C21_LinkRoundTrip

====
